---- MODULE Spec2Model ----
(***************************************************************************)
(* A model of scrapeReviews.ts: the Google-reviews scraper.                *)
(*                                                                         *)
(* The source file holds two variants of the program.  Variant 1 (lines    *)
(* 1-620) stores through insertIfNew and creates the table if it does not  *)
(* exist; variant 2 (lines 621-1325) stores through insert, recreates the  *)
(* table at start-up and parses with the walkDeep based extractors.        *)
(*                                                                         *)
(* A JavaScript string is modelled as a tuple of one-character strings, so *)
(* that the regular expressions and the escaping of the source act on      *)
(* characters.  A JavaScript value is a record [t, v] tagged with its      *)
(* type.  Every await of the source is a position of a worker; one action  *)
(* is the synchronous code that runs when that await settles.              *)
(***************************************************************************)
EXTENDS Integers, Sequences, FiniteSets, TLC

VARIABLES
    variant,    \* 1: the insertIfNew program, 2: the insert program
    sources,    \* the rows of the input CSV, in input order
    mainpc,     \* position of the main function
    exitCause,  \* why process.exit(1) was called: "none", "setup", "teardown", "target"
    table,      \* the rows of google_reviews, in insertion order
    q,          \* the queue of sources not yet taken
    pc,         \* pc[w]: the await worker w is suspended at
    src,        \* src[w]: the SourceRow of the running scrapePlace
    baseUrl,    \* baseUrl[w]: first.url()
    resp,       \* resp[w]: the response whose text is being read
    all,        \* all[w]: the ReviewRows collected so far
    token,      \* token[w]: the token of the page parsed last
    pageNo,     \* pageNo[w]
    nextUrl,    \* nextUrl[w]: the URL of the outstanding follow-up request
    existing,   \* existing[w]: the ids the existence query returned
    obs,        \* obs[w]: what was observed of the running scrapePlace
    calls,      \* the SourceRows passed to scrapePlace, in call order
    cUrl,       \* Token Codec harness: the URL template
    cOut,       \* Token Codec harness: <<flavor, token, rewritten URL>>
    pIn,        \* Batch Parser harness: the variant, the body and the flavor
    pOut,       \* Batch Parser harness: what parseBatch returned, once called
    wFn,        \* Tree Walker harness: "walk", "walkDeep" or "recurse"
    wHeap,      \* Tree Walker harness: wHeap[r] is the array with reference r
    wStack,     \* Tree Walker harness: the call stack, innermost call last
    wSeen,      \* Tree Walker harness: the Set seen of extractReviewText
    wOut,       \* Tree Walker harness: the leaves handed to the callbacks
    wVisits,    \* Tree Walker harness: the array references iterated over
    wState,     \* Tree Walker harness: "idle", "running", "returned", "overflow"
    wHit        \* Tree Walker harness: what recurse(block) returned

vars == <<variant, sources, mainpc, exitCause, table, q, pc, src, baseUrl, resp, all,
          token, pageNo, nextUrl, existing, obs, calls, cUrl, cOut, pIn, pOut,
          wFn, wHeap, wStack, wSeen, wOut, wVisits, wState, wHit>>

(***************************************************************************)
(* Bounds of the model.                                                    *)
(***************************************************************************)
\* The pool size is a tweakable parameter of the program (the source sets 4);
\* the model runs a pool of CONCURRENCY workers, fewer than the source's.
CONCURRENCY == 2
MaxTargets == 3      \* longest input CSV
MaxPages == 2        \* most follow-up requests of one target
MaxUrlLen == 4       \* longest URL template of the Token Codec harness
MaxTokLen == 1       \* longest token of the Token Codec harness

(***************************************************************************)
(* Strings.                                                                *)
(***************************************************************************)
StartsWith(s, p) == Len(s) >= Len(p) /\ SubSeq(s, 1, Len(p)) = p

\* s.indexOf(p): least 1-based position of p in s, 0 when p does not occur
IndexOf(s, p) ==
    LET hits == {i \in 1..(Len(s) - Len(p) + 1) : SubSeq(s, i, i + Len(p) - 1) = p}
    IN  IF hits = {} THEN 0 ELSE CHOOSE i \in hits : \A j \in hits : i <= j

Includes(s, p) == IndexOf(s, p) # 0

(***************************************************************************)
(* Token Codec.                                                            *)
(***************************************************************************)
\* the characters encodeURIComponent leaves as they are
Unreserved ==
    {"a","b","c","d","e","f","g","h","i","j","k","l","m","n","o","p","q","r","s",
     "t","u","v","w","x","y","z","A","B","C","D","E","F","G","H","I","J","K","L",
     "M","N","O","P","Q","R","S","T","U","V","W","X","Y","Z","0","1","2","3","4",
     "5","6","7","8","9","-","_",".","!","~","*","'","(",")"}

\* the %XX escape of the other characters the model uses
EscapeOf(c) ==
    CASE c \in Unreserved -> <<c>>
      [] c = "="  -> <<"%", "3", "D">>
      [] c = "/"  -> <<"%", "2", "F">>
      [] c = "?"  -> <<"%", "3", "F">>
      [] c = ","  -> <<"%", "2", "C">>
      [] c = " "  -> <<"%", "2", "0">>
      [] c = "["  -> <<"%", "5", "B">>
      [] c = "]"  -> <<"%", "5", "D">>
      [] c = "%"  -> <<"%", "2", "5">>
      [] c = ":"  -> <<"%", "3", "A">>
      [] OTHER    -> <<"%", "x", "x">>

RECURSIVE encodeURIComponent(_)
encodeURIComponent(t) ==
    IF t = <<>> THEN <<>>
    ELSE EscapeOf(Head(t)) \o encodeURIComponent(Tail(t))

\* end of the run [^!]* that starts at position i of url
RECURSIVE RunEnd(_, _)
RunEnd(url, i) ==
    IF i > Len(url) \/ url[i] = "!" THEN i - 1 ELSE RunEnd(url, i + 1)

\* url.replace(/<tag>[^!]*/, m => tag + encodeURIComponent(t)):
\* the leftmost match only; the URL itself when there is none
ReplaceMarker(url, tag, t) ==
    LET i == IndexOf(url, tag)
    IN  IF i = 0 THEN url
        ELSE SubSeq(url, 1, i - 1) \o tag \o encodeURIComponent(t)
             \o SubSeq(url, RunEnd(url, i + Len(tag)) + 1, Len(url))

EntitiesTag == <<"!", "3", "s">>
UgcTag == <<"!", "2", "s">>

withEntitiesToken(url, t) == ReplaceMarker(url, EntitiesTag, t)
withUgcToken(url, t) == ReplaceMarker(url, UgcTag, t)

Rewrite(ep, url, t) ==
    IF ep = "entities" THEN withEntitiesToken(url, t) ELSE withUgcToken(url, t)

(***************************************************************************)
(* JavaScript values: [t |-> tag, v |-> payload].                          *)
(***************************************************************************)
Str(s) == [t |-> "s", v |-> s]          \* a string
Num(n) == [t |-> "n", v |-> n]          \* an integer-valued number
Frac(n) == [t |-> "f", v |-> n]         \* a non-integer number, n tenths
Arr(a) == [t |-> "a", v |-> a]          \* an array
Bool(b) == [t |-> "b", v |-> b]
Null == [t |-> "null", v |-> 0]
Undef == [t |-> "undef", v |-> 0]
Obj == [t |-> "o", v |-> 0]             \* a plain object without index keys

IsString(n) == n.t = "s"
IsNumber(n) == n.t \in {"n", "f"}
IsArray(n) == n.t = "a"

\* n?.[i] with a 0-based index: an element of an array, a character of a
\* string, undefined for everything else
Idx(n, i) ==
    IF n.t = "a" THEN (IF i >= 0 /\ i < Len(n.v) THEN n.v[i + 1] ELSE Undef)
    ELSE IF n.t = "s" THEN (IF i >= 0 /\ i < Len(n.v) THEN Str(<<n.v[i + 1]>>) ELSE Undef)
    ELSE Undef

\* n?.[n.length - 1]
LastOf(n) == IF n.t \in {"a", "s"} THEN Idx(n, Len(n.v) - 1) ELSE Undef

\* the truthiness JavaScript gives a value in a condition
Truthy(n) ==
    CASE n.t = "s" -> n.v # <<>>
      [] n.t = "n" -> n.v # 0
      [] n.t = "b" -> n.v
      [] n.t \in {"null", "undef"} -> FALSE
      [] OTHER -> TRUE

\* the first element of a sequence, as a one-element or empty sequence
FirstOf(seq) == IF seq = <<>> THEN <<>> ELSE <<Head(seq)>>

\* [...new Set(seq)]: the first occurrence of each element, in order
RECURSIVE Dedup(_)
Dedup(seq) ==
    IF seq = <<>> THEN <<>>
    ELSE LET front == Dedup(SubSeq(seq, 1, Len(seq) - 1))
             last == seq[Len(seq)]
         IN  IF \E i \in 1..Len(front) : front[i] = last THEN front
             ELSE Append(front, last)

\* mutant: no truncation
SliceNone(seq) == seq

\* .slice(0, 8)
Slice8(seq) == SubSeq(seq, 1, IF Len(seq) < 8 THEN Len(seq) ELSE 8)

(***************************************************************************)
(* Tree walkers.                                                           *)
(***************************************************************************)
\* the string leaves walk reports to its callback, in call order
RECURSIVE walk(_)
walk(n) ==
    IF n.t = "s" THEN <<n.v>>
    ELSE IF n.t = "a" /\ n.v # <<>>
         THEN walk(Head(n.v)) \o walk(Arr(Tail(n.v)))
         ELSE <<>>

\* the string and number leaves walkDeep reports to strFn and numFn, in
\* call order
RECURSIVE walkDeep(_)
walkDeep(n) ==
    IF n.t \in {"s", "n", "f"} THEN <<n>>
    ELSE IF n.t = "a" /\ n.v # <<>>
         THEN walkDeep(Head(n.v)) \o walkDeep(Arr(Tail(n.v)))
         ELSE <<>>

(***************************************************************************)
(* Character classes of the regular expressions.                           *)
(***************************************************************************)
Lower == {"a","b","c","d","e","f","g","h","i","j","k","l","m","n","o","p","q",
          "r","s","t","u","v","w","x","y","z"}
Upper == {"A","B","C","D","E","F","G","H","I","J","K","L","M","N","O","P","Q",
          "R","S","T","U","V","W","X","Y","Z"}
Letter == Lower \cup Upper
Digit == {"0","1","2","3","4","5","6","7","8","9"}
Space == {" "}

Http == <<"h", "t", "t", "p">>
EndsWith(s, p) == Len(s) >= Len(p) /\ SubSeq(s, Len(s) - Len(p) + 1, Len(s)) = p

\* s.trim()
RECURSIVE TrimLeft(_)
TrimLeft(s) == IF s # <<>> /\ Head(s) \in Space THEN TrimLeft(Tail(s)) ELSE s
RECURSIVE TrimRight(_)
TrimRight(s) ==
    IF s # <<>> /\ s[Len(s)] \in Space THEN TrimRight(SubSeq(s, 1, Len(s) - 1)) ELSE s
Trim(s) == TrimRight(TrimLeft(s))

\* /^[A-Za-z]{2}$/
IsLangTag(s) == Len(s) = 2 /\ s[1] \in Letter /\ s[2] \in Letter

AllIn(s, class) == \A i \in 1..Len(s) : s[i] \in class

\* /ago$|Yesterday$|^[A-Za-z]{3}\s\d{4}$|^\d{1,2}\/\d{1,2}\/\d{4}$/
IsDateLike(s) ==
    \/ EndsWith(s, <<"a", "g", "o">>)
    \/ EndsWith(s, <<"Y", "e", "s", "t", "e", "r", "d", "a", "y">>)
    \/ /\ Len(s) = 8
       /\ AllIn(SubSeq(s, 1, 3), Letter)
       /\ s[4] \in Space
       /\ AllIn(SubSeq(s, 5, 8), Digit)
    \/ \E a \in 1..2, b \in 1..2 :
          /\ Len(s) = a + b + 6
          /\ AllIn(SubSeq(s, 1, a), Digit)
          /\ s[a + 1] = "/"
          /\ AllIn(SubSeq(s, a + 2, a + b + 1), Digit)
          /\ s[a + b + 2] = "/"
          /\ AllIn(SubSeq(s, a + b + 3, a + b + 6), Digit)

(***************************************************************************)
(* Payloads.  A response body is [lead |-> what precedes the JSON text, a   *)
(* sequence of "xssi" (the security prefix) and "ws" (white space), json   *)
(* |-> the value the rest of the text denotes, or Garbage when it is not   *)
(* JSON].                                                                  *)
(***************************************************************************)
Garbage == [t |-> "garbage", v |-> 0]
Body(n, j) == [lead |-> [i \in 1..n |-> "xssi"], json |-> j]

\* mutant: the prefix is not removed
KeepLead(lead) == lead

\* raw.replace(XSSI, ''): the pattern is anchored at the start of the text
StripXSSI(lead) == IF lead # <<>> /\ Head(lead) = "xssi" THEN Tail(lead) ELSE lead

\* .trim(), as far as it reaches into what precedes the JSON text
RECURSIVE TrimLead(_)
TrimLead(lead) == IF lead # <<>> /\ Head(lead) = "ws" THEN TrimLead(Tail(lead)) ELSE lead

\* JSON.parse(raw.replace(XSSI, '').trim()): the prefix is removed once, at
\* the start; a prefix left in the text makes it no JSON
JSONparse(raw) ==
    IF TrimLead(StripXSSI(raw.lead)) # <<>> \/ raw.json = Garbage
    THEN [ok |-> FALSE, data |-> Undef]
    ELSE [ok |-> TRUE, data |-> raw.json]

NonHttp(s) == s # <<>> /\ ~StartsWith(s, Http)
OrEmpty(hit) == IF hit = <<>> THEN <<>> ELSE hit[1]

\* variant 1: the record of one block (the block is an array)
Review1(b) ==
    LET ratingRaw == IF IsArray(Idx(b, 2)) THEN Idx(Idx(b, 2), 0) ELSE Idx(b, 4)
    IN  [review_id   |-> Idx(Idx(b, 0), 0),
         author      |-> OrEmpty(FirstOf(SelectSeq(walk(Idx(b, 0)), NonHttp))),
         rating      |-> IF IsNumber(ratingRaw) THEN ratingRaw ELSE Null,
         review_text |-> OrEmpty(FirstOf(SelectSeq(walk(b), NonHttp))),
         review_date |-> IF IsString(Idx(b, 1)) THEN Idx(b, 1).v ELSE <<>>,
         images      |-> Slice8(Dedup(SelectSeq(walk(b), LAMBDA x : StartsWith(x, Http))))]

(***************************************************************************)
(* Variant 2: the extractors.                                              *)
(***************************************************************************)
ReplyMarker == <<"/","c","u","s","t","o","m","e","r","s","/","r","e","v","i","e",
                 "w","s","/","r","e","p","l","y","?","p","=">>
PEq == <<"p", "=">>

\* s.split('p=')[1], for a string that contains 'p='
SplitP1(s) ==
    LET rest == SubSeq(s, IndexOf(s, PEq) + 2, Len(s))
        j == IndexOf(rest, PEq)
    IN  IF j = 0 THEN rest ELSE SubSeq(rest, 1, j - 1)

\* the value of postId after the walk: each reply link is taken while postId
\* is still null or empty
RECURSIVE PostId(_, _)
PostId(leaves, postId) ==
    IF leaves = <<>> THEN postId
    ELSE LET x == Head(leaves)
         IN  IF ~Truthy(postId) /\ IsString(x) /\ Includes(x.v, ReplyMarker)
             THEN PostId(Tail(leaves), Str(SplitP1(x.v)))
             ELSE PostId(Tail(leaves), postId)

extractReviewId(block, pageToken) ==
    LET candidate == Idx(Idx(block, 0), 0)
        postId == PostId(walkDeep(block), Null)
    IN  IF IsString(candidate) /\ candidate # pageToken THEN candidate
        ELSE IF postId # Null THEN postId
        ELSE IF IsString(candidate) THEN candidate ELSE Str(<<>>)

TextShape(x) == IsArray(x) /\ IsArray(Idx(x, 0)) /\ IsString(Idx(Idx(x, 0), 0))

\* recurse of extractReviewText: a string, or null.  The payload comes from
\* JSON.parse, so no array is reached twice and the seen set never hits.
RECURSIVE recurse(_)
RECURSIVE recurseChildren(_)
recurse(node) ==
    IF ~IsArray(node) THEN Null
    ELSE LET n == Len(node.v)
             hitsA == {i \in 0..(n - 2) :
                          /\ IsString(Idx(node, i))
                          /\ IsLangTag(Idx(node, i).v)
                          /\ TextShape(Idx(node, i + 1))}
             pen == Idx(node, n - 2)
             last == Idx(node, n - 1)
         IN  IF hitsA # {}
             THEN LET i == CHOOSE i \in hitsA : \A j \in hitsA : i <= j
                  IN  Str(Trim(Idx(Idx(Idx(node, i + 1), 0), 0).v))
             ELSE IF /\ n >= 2
                     /\ IsArray(pen)
                     /\ Len(pen.v) = 1
                     /\ IsString(Idx(pen, 0))
                     /\ IsLangTag(Idx(pen, 0).v)
                     /\ TextShape(last)
             THEN Str(Trim(Idx(Idx(last, 0), 0).v))
             ELSE recurseChildren(node.v)
recurseChildren(children) ==
    IF children = <<>> THEN Null
    ELSE LET hit == recurse(Head(children))
         IN  IF hit # Null THEN hit ELSE recurseChildren(Tail(children))

extractReviewText(block) ==
    LET hit == recurse(block) IN IF Truthy(hit) THEN hit.v ELSE <<>>

\* variant 2: the record of one block, given its review_id
Review2(b, review_id) ==
    LET leaves == walkDeep(b)
        authorAt == Idx(Idx(Idx(Idx(b, 0), 1), 4), 5)
        dates == FirstOf(SelectSeq(leaves,
                     LAMBDA x : IsString(x) /\ ~StartsWith(x.v, Http) /\ IsDateLike(x.v)))
        ratings == FirstOf(SelectSeq(leaves,
                     LAMBDA x : x.t = "n" /\ x.v >= 1 /\ x.v <= 5))
        urls == SelectSeq(leaves, LAMBDA x : IsString(x) /\ StartsWith(x.v, Http))
    IN  [review_id   |-> review_id,
         author      |-> IF IsArray(authorAt) /\ IsString(Idx(authorAt, 0))
                         THEN Idx(authorAt, 0).v ELSE <<>>,
         rating      |-> IF ratings = <<>> THEN Null ELSE ratings[1],
         review_text |-> extractReviewText(b),
         review_date |-> IF dates = <<>> THEN <<>> ELSE dates[1].v,
         images      |-> Slice8(Dedup([i \in 1..Len(urls) |-> urls[i].v]))]

(***************************************************************************)
(* Batch Parser.                                                           *)
(***************************************************************************)
\* the records of the blocks, in block order; a block that is not an array
\* or has a falsy review_id gives none
RECURSIVE ReviewsOf(_, _, _)
ReviewsOf(v, blocks, pageToken) ==
    IF blocks = <<>> THEN <<>>
    ELSE LET b == Head(blocks)
             review_id == IF v = 1 THEN Idx(Idx(b, 0), 0)
                          ELSE extractReviewId(b, pageToken)
             rest == ReviewsOf(v, Tail(blocks), pageToken)
         IN  IF ~IsArray(b) \/ ~Truthy(review_id) THEN rest
             ELSE <<IF v = 1 THEN Review1(b) ELSE Review2(b, review_id)>> \o rest

\* the next-page token: a value, Null when absent by the code's own test
TokenOf(data, ep) ==
    IF ep = "ugc"
    THEN (IF IsString(Idx(data, 1)) THEN Idx(data, 1) ELSE Null)
    ELSE (IF IsArray(LastOf(data)) THEN Idx(LastOf(data), 0) ELSE Null)

parseBatch(v, raw, ep) ==
    LET p == JSONparse(raw)
        data == p.data
        blocks == IF IsArray(Idx(data, 2)) THEN Idx(data, 2).v ELSE <<>>
    IN  IF ~p.ok THEN [reviews |-> <<>>, token |-> Null]
        ELSE [reviews |-> ReviewsOf(v, blocks, Idx(data, 1)),
              token |-> TokenOf(data, ep)]

(***************************************************************************)
(* String(v): what encodeURIComponent makes of a token that is no string.  *)
(***************************************************************************)
DigitChar(d) == CASE d = 0 -> "0" [] d = 1 -> "1" [] d = 2 -> "2" [] d = 3 -> "3"
                  [] d = 4 -> "4" [] d = 5 -> "5" [] d = 6 -> "6" [] d = 7 -> "7"
                  [] d = 8 -> "8" [] OTHER -> "9"

RECURSIVE NatString(_)
NatString(n) == IF n < 10 THEN <<DigitChar(n)>>
                ELSE Append(NatString(n \div 10), DigitChar(n % 10))

IntString(n) == IF n < 0 THEN <<"-">> \o NatString(0 - n) ELSE NatString(n)

RECURSIVE JsString(_)
RECURSIVE JoinComma(_)
JsString(x) ==
    CASE x.t = "s" -> x.v
      [] x.t = "n" -> IntString(x.v)
      [] x.t = "f" -> IntString(x.v \div 10) \o <<".">> \o NatString(x.v % 10)
      [] x.t = "b" -> IF x.v THEN <<"t","r","u","e">> ELSE <<"f","a","l","s","e">>
      [] x.t = "a" -> JoinComma(x.v)
      [] x.t = "null" -> <<"n","u","l","l">>
      [] x.t = "undef" -> <<"u","n","d","e","f","i","n","e","d">>
      [] OTHER -> <<"[","o","b","j","e","c","t"," ","O","b","j","e","c","t","]">>
JoinComma(xs) ==
    IF xs = <<>> THEN <<>>
    ELSE LET h == IF Head(xs).t \in {"null", "undef"} THEN <<>> ELSE JsString(Head(xs))
         IN  IF Len(xs) = 1 THEN h ELSE h \o <<",">> \o JoinComma(Tail(xs))

(***************************************************************************)
(* Storage: the rows of google_reviews in insertion order, and the three   *)
(* statements the gateways send.                                           *)
(***************************************************************************)
HasId(tbl, id) == \E i \in 1..Len(tbl) : tbl[i].review_id = id

\* SELECT review_id FROM google_reviews WHERE review_id = ANY(ids)
SelectExisting(tbl, rows) ==
    {rows[i].review_id : i \in 1..Len(rows)} \cap {tbl[i].review_id : i \in 1..Len(tbl)}

\* rows.filter(r => !existing.has(r.review_id))
Fresh(rows, ex) == SelectSeq(rows, LAMBDA r : r.review_id \notin ex)

\* mutant: the early return on an empty difference is missing
ShouldInsertAlways(fresh) == TRUE

\* if (!fresh.length) return
ShouldInsert(fresh) == fresh # <<>>

\* mutant: DO UPDATE in place of DO NOTHING
RECURSIVE InsertOnConflictDoUpdate(_, _)
InsertOnConflictDoUpdate(tbl, rows) ==
    IF rows = <<>> THEN tbl
    ELSE InsertOnConflictDoUpdate(
             IF HasId(tbl, Head(rows).review_id)
             THEN [i \in 1..Len(tbl) |->
                      IF tbl[i].review_id = Head(rows).review_id THEN Head(rows) ELSE tbl[i]]
             ELSE Append(tbl, Head(rows)),
             Tail(rows))

\* mutant: a conflict is seen only with the rows stored before the statement
InsertSkippingStoredOnly(tbl, rows) ==
    tbl \o SelectSeq(rows, LAMBDA r : ~HasId(tbl, r.review_id))

\* mutant: the last row of the VALUES list is lost
InsertAllButLast(tbl, rows) ==
    tbl \o SelectSeq(SubSeq(rows, 1, Len(rows) - 1), LAMBDA r : ~HasId(tbl, r.review_id))

\* mutant: the ON CONFLICT clause is missing, a conflict rejects the statement
InsertWithoutConflictClause(tbl, rows) ==
    IF \/ \E i \in 1..Len(rows) : HasId(tbl, rows[i].review_id)
       \/ \E i, j \in 1..Len(rows) : i < j /\ rows[i].review_id = rows[j].review_id
    THEN tbl
    ELSE tbl \o rows

\* INSERT ... VALUES rows ON CONFLICT (review_id) DO NOTHING: a row whose key
\* is stored, or was proposed earlier in the same statement, is skipped
RECURSIVE InsertOnConflictDoNothing(_, _)
InsertOnConflictDoNothing(tbl, rows) ==
    IF rows = <<>> THEN tbl
    ELSE InsertOnConflictDoNothing(
             IF HasId(tbl, Head(rows).review_id) THEN tbl ELSE Append(tbl, Head(rows)),
             Tail(rows))

\* the PRIMARY KEY constraint on a plain INSERT of rows
UniqueViolation(tbl, rows) ==
    \/ \E i \in 1..Len(rows) : HasId(tbl, rows[i].review_id)
    \/ \E i, j \in 1..Len(rows) : i < j /\ rows[i].review_id = rows[j].review_id

\* mutant: the rows are inserted one statement each, those before the
\* violation stay stored
RECURSIVE InsertRowByRow(_, _)
InsertRowByRow(tbl, rows) ==
    IF rows = <<>> \/ HasId(tbl, Head(rows).review_id) THEN tbl
    ELSE InsertRowByRow(Append(tbl, Head(rows)), Tail(rows))

\* INSERT ... VALUES rows: the statement stores every row or, on a unique
\* violation, none
InsertPlain(tbl, rows) == IF UniqueViolation(tbl, rows) THEN tbl ELSE tbl \o rows

(***************************************************************************)
(* The environment: the input rows and what the sites answer.             *)
(***************************************************************************)
ListEntities == <<"l","i","s","t","e","n","t","i","t","i","e","s","r","e","v","i",
                  "e","w","s">>
ListUgc == <<"l","i","s","t","u","g","c","p","o","s","t","s">>

Row(c, u) == [company |-> c, location |-> "x", gmaps_url |-> u]
NoRow == Row("", "")
Targets == {Row("A", "uA"), Row("B", "uB"), Row("C", "uC")}

R1 == <<"r", "1">>
R2 == <<"r", "2">>
Block(id) == Arr(<<Arr(<<Str(id)>>), Str(<<"1", "/", "2", "/", "2", "0", "2", "4">>),
                   Arr(<<Num(5)>>), Str(Http \o <<"i">>)>>)

\* site uA: entities flavor, marker in the URL, three pages: the second has
\* two blocks, the third has no block and no token
UrlA == ListEntities \o <<"?", "!", "3", "s", "!", "4", "x">>
TokA == <<"t", "=">>
PageA1 == Body(1, Arr(<<Null, Null, Arr(<<Block(R1)>>), Arr(<<Str(TokA)>>)>>))
TokA2 == <<"v">>
PageA2 == Body(1, Arr(<<Null, Null, Arr(<<Block(R2), Block(R1)>>), Arr(<<Str(TokA2)>>)>>))
PageA3 == Body(1, Arr(<<Null, Null, Arr(<<>>), Null>>))
\* site uB: ugc flavor, no marker in the URL; every request is answered by
\* the same page, which carries a token
UrlB == ListUgc \o <<"?", "a">>
TokB == <<"u">>
PageB == Body(1, Arr(<<Null, Str(TokB), Arr(<<Block(R1)>>)>>))
\* site uC: ugc flavor, marker in the URL, one page without a token whose
\* blocks give no record (one is no array, one has an empty id)
UrlC == ListUgc \o <<"?", "!", "2", "s", "!", "5">>
PageC == Body(0, Arr(<<Null, Null, Arr(<<Null, Arr(<<Arr(<<Str(<<>>)>>)>>)>>)>>))
ErrorPage == Body(0, Garbage)

Response(u, st, b) == [url |-> u, status |-> st, body |-> b]
NoResp == Response(<<>>, 0, ErrorPage)

\* the responses page.waitForResponse can deliver for a place
FirstResponses(gmaps_url) ==
    CASE gmaps_url = "uA" -> {Response(UrlA, 200, PageA1)}
      [] gmaps_url = "uB" -> {Response(UrlB, 200, PageB)}
      [] gmaps_url = "uC" -> {Response(UrlC, 200, PageC)}
      [] OTHER -> {}

\* the responses ctx.request.get(url) can deliver for a place
FollowUps(gmaps_url, url) ==
    {Response(url, 500, ErrorPage)} \cup
    CASE gmaps_url = "uA" /\ url = withEntitiesToken(UrlA, TokA)
              -> {Response(url, 200, PageA2)}
      [] gmaps_url = "uA" /\ url = withEntitiesToken(UrlA, TokA2)
              -> {Response(url, 200, PageA3)}
      [] gmaps_url = "uB" -> {Response(url, 200, PageB)}
      [] OTHER -> {Response(url, 404, ErrorPage)}

\* the Batch Parser harness at rest
NoParse == [v |-> 1, raw |-> ErrorPage, ep |-> "entities"]

\* a row a former run stored
OldRow == [review_id |-> Str(R1), author |-> R1, rating |-> Null,
           review_text |-> R1, review_date |-> <<>>, images |-> <<>>,
           company |-> "old", location |-> "x", business_url |-> "uA"]
InitTables == {<<>>, <<OldRow>>}

(***************************************************************************)
(* The program.                                                            *)
(***************************************************************************)
Workers == 1..CONCURRENCY

\* what the model records of one run of scrapePlace
ObsInit == [failed |-> FALSE, collected |-> 0, lastStatus |-> 0, sameUrl |-> 0,
            selects |-> 0, inserts |-> 0, gw |-> "none", written |-> 0]

InitCommon ==
    /\ mainpc = "connect"
    /\ exitCause = "none"
    /\ q = <<>>
    /\ pc = [w \in Workers |-> "idle"]
    /\ src = [w \in Workers |-> NoRow]
    /\ baseUrl = [w \in Workers |-> <<>>]
    /\ resp = [w \in Workers |-> NoResp]
    /\ all = [w \in Workers |-> <<>>]
    /\ token = [w \in Workers |-> Null]
    /\ pageNo = [w \in Workers |-> 0]
    /\ nextUrl = [w \in Workers |-> <<>>]
    /\ existing = [w \in Workers |-> {}]
    /\ obs = [w \in Workers |-> ObsInit]
    /\ calls = <<>>

\* no traversal is under way
WalkIdle ==
    /\ wFn = "walk"
    /\ wHeap = <<>>
    /\ wStack = <<>>
    /\ wSeen = {}
    /\ wOut = <<>>
    /\ wVisits = <<>>
    /\ wState = "idle"
    /\ wHit = Null

Init ==
    /\ variant \in {1, 2}
    /\ sources \in UNION {[1..n -> Targets] : n \in 0..MaxTargets}
    /\ table \in InitTables
    /\ InitCommon
    /\ cUrl = <<>>
    /\ cOut = <<>>
    /\ pIn = NoParse
    /\ pOut = <<>>
    /\ WalkIdle

codecVars == <<cUrl, cOut>>
parseVars == <<pIn, pOut>>
walkVars == <<wFn, wHeap, wStack, wSeen, wOut, wVisits, wState, wHit>>
harnessVars == <<codecVars, parseVars, walkVars>>
inputVars == <<variant, sources>>
mainVars == <<mainpc, exitCause>>
poolVars == <<q, calls>>
pageVars == <<baseUrl, resp, all, token, pageNo, nextUrl>>

(***************************************************************************)
(* main: set-up and tear-down.                                             *)
(***************************************************************************)
\* pg.connect() resolved; ensureTable sends its first statement
Connect ==
    /\ mainpc = "connect"
    /\ mainpc' = "ensureTable"
    /\ UNCHANGED <<inputVars, exitCause, table, poolVars, pc, src, pageVars,
                   existing, obs, harnessVars>>

\* variant 1: CREATE TABLE IF NOT EXISTS; variant 2: DROP TABLE IF EXISTS
EnsureTableRows(v, tbl) == IF v = 1 THEN tbl ELSE <<>>

EnsureTable ==
    /\ mainpc = "ensureTable"
    /\ table' = EnsureTableRows(variant, table)
    /\ mainpc' = IF variant = 1 THEN "launch" ELSE "createTable"
    /\ UNCHANGED <<inputVars, exitCause, poolVars, pc, src, pageVars, existing,
                   obs, harnessVars>>

\* variant 2: CREATE TABLE after the DROP
CreateTable ==
    /\ mainpc = "createTable"
    /\ mainpc' = "launch"
    /\ UNCHANGED <<inputVars, exitCause, table, poolVars, pc, src, pageVars,
                   existing, obs, harnessVars>>

\* an await of the set-up or of the tear-down rejects: the catch of main
\* calls process.exit(1)
MainFails ==
    /\ mainpc \in {"connect", "ensureTable", "createTable", "launch", "teardown"}
    /\ mainpc' = "exit"
    /\ exitCause' = IF mainpc = "teardown" THEN "teardown" ELSE "setup"
    /\ UNCHANGED <<inputVars, table, poolVars, pc, src, pageVars, existing, obs,
                   harnessVars>>

\* while (q.length)
LoopGuard(queue) == Len(queue) > 0

\* mutant: q.pop() in place of q.shift()
ShiftLast(queue) ==
    IF queue = <<>> THEN [head |-> NoRow, rest |-> <<>>]
    ELSE [head |-> queue[Len(queue)], rest |-> SubSeq(queue, 1, Len(queue) - 1)]

\* q.shift(): the head, or undefined when the queue is empty
Shift(queue) ==
    IF queue = <<>> THEN [head |-> NoRow, rest |-> <<>>]
    ELSE [head |-> Head(queue), rest |-> Tail(queue)]

\* mutant: scrapePlace is called without await, so one turn of the loop
\* starts every queued target
WorkerLoopNoAwait(w, st) ==
    IF LoopGuard(st.q)
    THEN [q |-> <<>>,
          calls |-> st.calls \o st.q,
          pc |-> [st.pc EXCEPT ![w] = "newPage"],
          src |-> [st.src EXCEPT ![w] = Shift(st.q).head]]
    ELSE [st EXCEPT !.pc[w] = "done", !.src[w] = NoRow]

\* one turn of a worker's loop up to its first await: the test, the shift
\* and the synchronous start of scrapePlace (which awaits ctx.newPage())
WorkerLoop(w, st) ==
    IF LoopGuard(st.q)
    THEN [q |-> Shift(st.q).rest,
          calls |-> Append(st.calls, Shift(st.q).head),
          pc |-> [st.pc EXCEPT ![w] = "newPage"],
          src |-> [st.src EXCEPT ![w] = Shift(st.q).head]]
    ELSE [st EXCEPT !.pc[w] = "done", !.src[w] = NoRow]

\* Array(CONCURRENCY).fill(0).map(async () => ...): the workers start one
\* after the other, each running until its first await
RECURSIVE StartWorkers(_, _)
StartWorkers(w, st) ==
    IF w > CONCURRENCY THEN st ELSE StartWorkers(w + 1, WorkerLoop(w, st))

\* the browser is launched, q = [...sources], the pool starts
StartPool ==
    /\ mainpc = "launch"
    /\ mainpc' = "pool"
    /\ LET st == StartWorkers(1, [q |-> sources, calls |-> calls, pc |-> pc, src |-> src])
       IN  /\ q' = st.q
           /\ calls' = st.calls
           /\ pc' = st.pc
           /\ src' = st.src
    /\ UNCHANGED <<inputVars, exitCause, table, pageVars, existing, obs, harnessVars>>

\* Promise.all resolved: every worker left its loop
PoolDone ==
    /\ mainpc = "pool"
    /\ \A w \in Workers : pc[w] = "done"
    /\ mainpc' = "teardown"
    /\ UNCHANGED <<inputVars, exitCause, table, poolVars, pc, src, pageVars,
                   existing, obs, harnessVars>>

\* browser.close(), pg.end() resolved
Teardown ==
    /\ mainpc = "teardown"
    /\ mainpc' = "finished"
    /\ UNCHANGED <<inputVars, exitCause, table, poolVars, pc, src, pageVars,
                   existing, obs, harnessVars>>

(***************************************************************************)
(* scrapePlace: one action per await, run when the await settles.          *)
(***************************************************************************)
\* const ep = baseUrl.includes('listugcposts') ? 'ugc' : 'entities'
Ep(url) == IF Includes(url, ListUgc) THEN "ugc" ELSE "entities"

\* reviews.map(r => ({...r, company, location, business_url: gmaps_url}))
Enrich(reviews, s) ==
    [i \in 1..Len(reviews) |->
        [review_id |-> reviews[i].review_id, author |-> reviews[i].author,
         rating |-> reviews[i].rating, review_text |-> reviews[i].review_text,
         review_date |-> reviews[i].review_date, images |-> reviews[i].images,
         company |-> s.company, location |-> s.location,
         business_url |-> s.gmaps_url]]

\* mutant: the page's records are assigned to all, not pushed
PushReplacing(arr, rows) == rows

\* all.push(...rows)
Push(arr, rows) == arr \o rows

\* mutant: a do-while loop, the token is not tested
LoopContinuesAlways(tok) == TRUE

\* while (token)
LoopContinues(tok) == Truthy(tok)

\* mutant: the catch block flushes what was collected
CatchTableFlush(tbl, rows) == InsertOnConflictDoNothing(tbl, rows)

\* what the catch block of scrapePlace does to the table: nothing
CatchTable(tbl, rows) == tbl

workerFrame == <<inputVars, mainVars, poolVars, src, harnessVars>>

Goto(w, to) == pc' = [pc EXCEPT ![w] = to]

\* ctx.newPage() resolved: the try block is entered, page.goto is awaited
NewPageResolve(w) ==
    /\ mainpc = "pool" /\ pc[w] = "newPage"
    /\ Goto(w, "goto")
    /\ UNCHANGED <<workerFrame, table, pageVars, existing, obs>>

\* page.goto resolved: dismissCookies runs
GotoResolve(w) ==
    /\ mainpc = "pool" /\ pc[w] = "goto"
    /\ Goto(w, "cookies")
    /\ UNCHANGED <<workerFrame, table, pageVars, existing, obs>>

\* dismissCookies returned (it catches its own failures): openReviewsPane runs
CookiesResolve(w) ==
    /\ mainpc = "pool" /\ pc[w] = "cookies"
    /\ Goto(w, "openPane")
    /\ UNCHANGED <<workerFrame, table, pageVars, existing, obs>>

\* openReviewsPane returned: page.waitForResponse is awaited
OpenPaneResolve(w) ==
    /\ mainpc = "pool" /\ pc[w] = "openPane"
    /\ Goto(w, "waitForResponse")
    /\ UNCHANGED <<workerFrame, table, pageVars, existing, obs>>

\* the first matching response arrived: baseUrl is set, first.text() awaited
WaitResolve(w) ==
    /\ mainpc = "pool" /\ pc[w] = "waitForResponse"
    /\ \E r \in FirstResponses(src[w].gmaps_url) :
          /\ baseUrl' = [baseUrl EXCEPT ![w] = r.url]
          /\ resp' = [resp EXCEPT ![w] = r]
    /\ Goto(w, "firstText")
    /\ UNCHANGED <<workerFrame, table, all, token, pageNo, nextUrl, existing, obs>>

\* insertIfNew(pg, all) or insert(pg, all) up to its first await, and, when
\* it returns at once, the rest of the try block up to page.close()
EnterGateway(w, rows, o) ==
    IF rows = <<>>
    THEN /\ Goto(w, "close")
         /\ obs' = [obs EXCEPT ![w] = [o EXCEPT !.gw = "empty"]]
    ELSE IF variant = 1
    THEN /\ Goto(w, "select")
         /\ obs' = [obs EXCEPT ![w] = [o EXCEPT !.selects = @ + 1]]
    ELSE /\ Goto(w, "insert")
         /\ obs' = [obs EXCEPT ![w] = [o EXCEPT !.inserts = @ + 1]]

\* the test of the while loop with the token tok, and what follows: the next
\* request, or the end of the loop and the gateway call
AfterPage(w, rows, tok, pno, o) ==
    IF LoopContinues(tok)
    THEN /\ pno <= MaxPages
         /\ LET url == Rewrite(Ep(baseUrl[w]), baseUrl[w], JsString(tok))
            IN  /\ nextUrl' = [nextUrl EXCEPT ![w] = url]
                /\ obs' = [obs EXCEPT ![w] =
                             [o EXCEPT !.sameUrl = @ + (IF url = baseUrl[w] THEN 1 ELSE 0)]]
         /\ pageNo' = [pageNo EXCEPT ![w] = pno + 1]
         /\ Goto(w, "get")
    ELSE /\ nextUrl' = nextUrl
         /\ pageNo' = [pageNo EXCEPT ![w] = pno]
         /\ EnterGateway(w, rows, o)

\* first.text() resolved: the first page is parsed, the loop begins
FirstTextResolve(w) ==
    /\ mainpc = "pool" /\ pc[w] = "firstText"
    /\ LET parsed == parseBatch(variant, resp[w].body, Ep(baseUrl[w]))
           rows == Enrich(parsed.reviews, src[w])
       IN  /\ all' = [all EXCEPT ![w] = rows]
           /\ token' = [token EXCEPT ![w] = parsed.token]
           /\ AfterPage(w, rows, parsed.token, 1, obs[w])
    /\ resp' = [resp EXCEPT ![w] = NoResp]
    /\ UNCHANGED <<workerFrame, table, baseUrl, existing>>

\* ctx.request.get resolved: a status other than 200 breaks the loop
GetResolve(w) ==
    /\ mainpc = "pool" /\ pc[w] = "get"
    /\ \E r \in FollowUps(src[w].gmaps_url, nextUrl[w]) :
          IF r.status # 200
          THEN /\ EnterGateway(w, all[w], [obs[w] EXCEPT !.lastStatus = r.status])
               /\ resp' = resp
          ELSE /\ Goto(w, "resText")
               /\ obs' = [obs EXCEPT ![w].lastStatus = r.status]
               /\ resp' = [resp EXCEPT ![w] = r]
    /\ UNCHANGED <<workerFrame, table, baseUrl, all, token, pageNo, nextUrl, existing>>

\* res.text() resolved: the page is parsed and added, sleep is awaited
ResTextResolve(w) ==
    /\ mainpc = "pool" /\ pc[w] = "resText"
    /\ LET parsed == parseBatch(variant, resp[w].body, Ep(baseUrl[w]))
       IN  /\ all' = [all EXCEPT ![w] = Push(@, Enrich(parsed.reviews, src[w]))]
           /\ token' = [token EXCEPT ![w] = parsed.token]
    /\ resp' = [resp EXCEPT ![w] = NoResp]
    /\ Goto(w, "sleep")
    /\ UNCHANGED <<workerFrame, table, baseUrl, pageNo, nextUrl, existing, obs>>

\* sleep(INTER_PAGE_DELAY_MS) resolved: the loop test
SleepResolve(w) ==
    /\ mainpc = "pool" /\ pc[w] = "sleep"
    /\ AfterPage(w, all[w], token[w], pageNo[w], obs[w])
    /\ UNCHANGED <<workerFrame, table, baseUrl, resp, all, token, existing>>

\* an await inside the try block rejects (or openReviewsPane throws) before
\* the gateway is called: the catch block, then page.close() is awaited
Catch(w) ==
    /\ mainpc = "pool"
    /\ pc[w] \in {"goto", "openPane", "waitForResponse", "firstText", "get", "resText"}
    /\ Goto(w, "close")
    /\ table' = CatchTable(table, all[w])
    /\ obs' = [obs EXCEPT ![w].failed = TRUE, ![w].collected = Len(all[w]),
                          ![w].written = @ + Len(table') - Len(table)]
    /\ baseUrl' = [baseUrl EXCEPT ![w] = <<>>]
    /\ resp' = [resp EXCEPT ![w] = NoResp]
    /\ all' = [all EXCEPT ![w] = <<>>]
    /\ token' = [token EXCEPT ![w] = Null]
    /\ pageNo' = [pageNo EXCEPT ![w] = 0]
    /\ nextUrl' = [nextUrl EXCEPT ![w] = <<>>]
    /\ UNCHANGED <<workerFrame, existing>>

\* the existence query resolved: the fresh rows are inserted, if there are any
SelectResolve(w) ==
    /\ mainpc = "pool" /\ pc[w] = "select"
    /\ LET ex == SelectExisting(table, all[w])
       IN  /\ existing' = [existing EXCEPT ![w] = ex]
           /\ IF ShouldInsert(Fresh(all[w], ex))
              THEN /\ Goto(w, "insert")
                   /\ obs' = [obs EXCEPT ![w].inserts = @ + 1]
              ELSE /\ Goto(w, "close")
                   /\ obs' = [obs EXCEPT ![w].gw = "skipped"]
    /\ UNCHANGED <<workerFrame, table, pageVars>>

\* the INSERT was executed: it stored rows, or (variant 2) was rejected by
\* the PRIMARY KEY and the catch block ran
InsertResolve(w) ==
    /\ mainpc = "pool" /\ pc[w] = "insert"
    /\ table' = IF variant = 1
                THEN InsertOnConflictDoNothing(table, Fresh(all[w], existing[w]))
                ELSE InsertPlain(table, all[w])
    /\ obs' = IF variant = 2 /\ UniqueViolation(table, all[w])
              THEN [obs EXCEPT ![w].failed = TRUE, ![w].gw = "unique_violation"]
              ELSE [obs EXCEPT ![w].gw = "inserted",
                               ![w].written = @ + Len(table') - Len(table)]
    /\ Goto(w, "close")
    /\ UNCHANGED <<workerFrame, pageVars, existing>>

\* a statement of the gateway failed for a reason of the connection: the
\* rejection reaches the catch block of scrapePlace
GatewayReject(w) ==
    /\ mainpc = "pool" /\ pc[w] \in {"select", "insert"}
    /\ Goto(w, "close")
    /\ obs' = [obs EXCEPT ![w].failed = TRUE, ![w].gw = "storage_failure"]
    /\ UNCHANGED <<workerFrame, table, pageVars, existing>>

\* page.close() resolved: scrapePlace returns and the worker loops
CloseResolve(w) ==
    /\ mainpc = "pool" /\ pc[w] = "close"
    /\ LET st == WorkerLoop(w, [q |-> q, calls |-> calls, pc |-> pc, src |-> src])
       IN  /\ q' = st.q
           /\ calls' = st.calls
           /\ pc' = st.pc
           /\ src' = st.src
    /\ baseUrl' = [baseUrl EXCEPT ![w] = <<>>]
    /\ resp' = [resp EXCEPT ![w] = NoResp]
    /\ all' = [all EXCEPT ![w] = <<>>]
    /\ token' = [token EXCEPT ![w] = Null]
    /\ pageNo' = [pageNo EXCEPT ![w] = 0]
    /\ nextUrl' = [nextUrl EXCEPT ![w] = <<>>]
    /\ existing' = [existing EXCEPT ![w] = {}]
    /\ obs' = [obs EXCEPT ![w] = ObsInit]
    /\ UNCHANGED <<inputVars, mainVars, table, harnessVars>>

\* ctx.newPage() (before the try) or page.close() (in the finally) rejects:
\* scrapePlace rejects, so does Promise.all, and the catch of main calls
\* process.exit(1)
Escape(w) ==
    /\ mainpc = "pool" /\ pc[w] \in {"newPage", "close"}
    /\ mainpc' = "exit"
    /\ exitCause' = "target"
    /\ UNCHANGED <<inputVars, table, poolVars, pc, src, pageVars, existing, obs,
                   harnessVars>>

WorkerStep(w) ==
    \/ NewPageResolve(w) \/ GotoResolve(w) \/ CookiesResolve(w)
    \/ OpenPaneResolve(w) \/ WaitResolve(w) \/ FirstTextResolve(w)
    \/ GetResolve(w) \/ ResTextResolve(w) \/ SleepResolve(w) \/ Catch(w)
    \/ SelectResolve(w) \/ InsertResolve(w) \/ GatewayReject(w)
    \/ CloseResolve(w) \/ Escape(w)

Next ==
    \/ Connect \/ EnsureTable \/ CreateTable \/ MainFails \/ StartPool
    \/ PoolDone \/ Teardown
    \/ \E w \in Workers : WorkerStep(w)

Spec == Init /\ [][Next]_vars

(***************************************************************************)
(* Token Codec harness: a URL template is rewritten, and the result is     *)
(* rewritten again.                                                        *)
(***************************************************************************)
HarnessChars == {"!", "2", "3", "s", "="}
HarnessUrls == UNION {[1..n -> HarnessChars] : n \in 0..MaxUrlLen}
HarnessTokens == UNION {[1..n -> {"!", "s", "="}] : n \in 0..MaxTokLen}

InitCodec ==
    /\ variant = 1
    /\ sources = <<>>
    /\ table = <<>>
    /\ InitCommon
    /\ cUrl \in HarnessUrls
    /\ cOut = <<>>
    /\ pIn = NoParse
    /\ pOut = <<>>
    /\ WalkIdle

CodecRewrite ==
    /\ Len(cOut) < 2
    /\ \E ep \in (IF cOut = <<>> THEN {"entities", "ugc"} ELSE {cOut[1].ep}),
          t \in HarnessTokens :
          cOut' = Append(cOut,
                     [ep |-> ep, t |-> t,
                      url |-> Rewrite(ep, IF cOut = <<>> THEN cUrl ELSE cOut[Len(cOut)].url, t)])
    /\ UNCHANGED <<inputVars, mainVars, table, poolVars, pc, src, pageVars,
                   existing, obs, cUrl, parseVars, walkVars>>

NextCodec == CodecRewrite

SpecCodec == InitCodec /\ [][NextCodec]_vars

(***************************************************************************)
(* Batch Parser harness: parseBatch is called once on a body.  The bodies  *)
(* are what precedes the JSON text, times the top-level values, times the  *)
(* lists of blocks.                                                        *)
(***************************************************************************)
MaxBlocks == 2       \* most blocks of a body

Img(c) == Str(Http \o <<c>>)
ReplyLink(id) == Str(<<"g">> \o ReplyMarker \o id)
Local == Str(<<"/", "l", "o", "c", "a", "l", "/", "x">>)
Name == <<"A", "l">>

\* a block whose sub-tree b[0] holds the author at b[0][1][4][5][0]
AuthorBlock ==
    Arr(<<Arr(<<Str(R1),
                Arr(<<Null, Null, Null, Null,
                      Arr(<<Null, Null, Null, Null, Null, Arr(<<Str(Name)>>)>>)>>)>>)>>)

\* a block with nine distinct image URLs, one of them twice, and a local
\* resource
ImageBlock ==
    Arr(<<Arr(<<Str(R1)>>), Img("a"), Img("b"), Arr(<<Img("a"), Img("c")>>),
          Img("d"), Img("e"), Img("f"), Img("g"), Img("h"), Img("i"), Local>>)

HarnessBlocks ==
    { Null,                                                \* not an array
      Arr(<<Arr(<<Str(<<>>)>>)>>),                         \* empty identifier
      Arr(<<Arr(<<Num(7)>>)>>),                            \* a number at [0][0]
      Block(R1),
      Arr(<<Arr(<<Str(R2)>>), Null, Arr(<<Num(0)>>)>>),    \* 0 at [2][0]
      Arr(<<Arr(<<Str(R2)>>), Null, Null, Null, Frac(45)>>),   \* 4.5 at [4]
      Arr(<<Arr(<<Str(R2)>>), Null, Arr(<<Num(0 - 1)>>), Num(9), Num(3)>>),
      ImageBlock,
      Arr(<<Arr(<<Str(TokB)>>)>>),                         \* [0][0] is the page token
      Arr(<<Arr(<<Str(TokB)>>), ReplyLink(R2)>>),          \* ... with a reply link
      Arr(<<Arr(<<Str(TokB)>>), ReplyLink(<<>>)>>),        \* ... whose p= is empty
      AuthorBlock,
      Arr(<<Arr(<<Str(R2), Str(Http \o <<"p">>), Str(Name)>>)>>),   \* no author path
      Arr(<<Arr(<<Str(R2)>>), Arr(<<Str(<<"e", "n">>), Arr(<<Arr(<<Str(<<"h", "i", " ">>)>>)>>)>>)>>) }

BlockLists == UNION {[1..n -> HarnessBlocks] : n \in 0..MaxBlocks}

\* top-level values with the blocks at offset 2
TopsOf(blocks) ==
    { Arr(<<Null, Null, Arr(blocks), Null>>),
      Arr(<<Null, Null, Arr(blocks), Arr(<<Str(TokA)>>)>>),
      Arr(<<Null, Null, Arr(blocks), Arr(<<Num(7)>>)>>),
      Arr(<<Null, Str(TokB), Arr(blocks)>>) }

\* top-level values without the expected shape
OddTops ==
    { Garbage, Null, Num(5), Obj, Str(<<"a", "b", "c">>), Arr(<<>>),
      Arr(<<Str(R1), Str(TokB)>>),
      Arr(<<Arr(<<Str(TokA)>>)>>),
      Arr(<<Null, Null, Obj, Arr(<<>>)>>) }

Leads == { <<>>, <<"xssi">>, <<"ws">>, <<"ws", "xssi">>, <<"xssi", "xssi">>,
           <<"xssi", "ws">> }

HarnessBodies ==
    {[lead |-> l, json |-> j] :
        l \in Leads, j \in OddTops \cup UNION {TopsOf(bl) : bl \in BlockLists}}

InitParse ==
    /\ variant = 1
    /\ sources = <<>>
    /\ table = <<>>
    /\ InitCommon
    /\ cUrl = <<>>
    /\ cOut = <<>>
    /\ pIn \in [v : {1, 2}, raw : HarnessBodies, ep : {"entities", "ugc"}]
    /\ pOut = <<>>
    /\ WalkIdle

\* parseBatch(raw, ep) of the variant is called and returns
ParseCall ==
    /\ pOut = <<>>
    /\ pOut' = <<parseBatch(pIn.v, pIn.raw, pIn.ep)>>
    /\ UNCHANGED <<inputVars, mainVars, table, poolVars, pc, src, pageVars,
                   existing, obs, codecVars, pIn, walkVars>>

NextParse == ParseCall

SpecParse == InitParse /\ [][NextParse]_vars

(***************************************************************************)
(* The Tree Walker harness: walk, walkDeep and the recurse function of     *)
(* extractReviewText run, call by call, over arrays that have an identity. *)
(* An array is a sequence of elements; an element is a string, a number or *)
(* the reference of an array, so that one array can be an element of two   *)
(* arrays, or of itself.  Reference 1 is the block the traversal starts at.*)
(***************************************************************************)
MaxNodes == 3        \* arrays of a heap
MaxKids == 2         \* longest array of a heap
MaxDepth == 4        \* calls the engine's stack holds; more than MaxNodes

Ref(r) == [t |-> "r", v |-> r]
Elements == {Str(<<"e", "n">>), Num(5)} \cup {Ref(r) : r \in 1..MaxNodes}
Heaps == [1..MaxNodes -> UNION {[1..n -> Elements] : n \in 0..MaxKids}]

Frame(r) == [node |-> r, i |-> 1]
Top == wStack[Len(wStack)]
\* the innermost call moves on to its next element
Advance == [wStack EXCEPT ![Len(wStack)].i = @ + 1]

InitWalk ==
    /\ variant = 1
    /\ sources = <<>>
    /\ table = <<>>
    /\ InitCommon
    /\ cUrl = <<>>
    /\ cOut = <<>>
    /\ pIn = NoParse
    /\ pOut = <<>>
    /\ wFn \in {"walk", "walkDeep", "recurse"}
    /\ wHeap \in Heaps
    /\ wStack = <<>>
    /\ wSeen = {}
    /\ wOut = <<>>
    /\ wVisits = <<>>
    /\ wState = "idle"
    /\ wHit = Null

walkFrame == <<inputVars, mainVars, table, poolVars, pc, src, pageVars,
               existing, obs, codecVars, parseVars, wFn, wHeap>>

\* the callbacks a walker has: walk has fn for strings, walkDeep has strFn
\* and numFn
Reports(fn, e) == (e.t = "s") \/ (fn = "walkDeep" /\ e.t = "n")

\* walk(b, fn) or walkDeep(b, strFn, numFn) is called on the block: it is
\* an array, whose forEach starts
WalkCall ==
    /\ wState = "idle"
    /\ wFn \in {"walk", "walkDeep"}
    /\ wState' = "running"
    /\ wStack' = <<Frame(1)>>
    /\ wVisits' = <<1>>
    /\ UNCHANGED <<walkFrame, wSeen, wOut, wHit>>

\* forEach hands the next element x to walk(x, fn), or v to walkDeep(v, ..):
\* a leaf goes to its callback, an array starts its own forEach one call
\* deeper, whether or not it was iterated over before; a call the stack
\* has no room for throws RangeError
ForEachStep ==
    /\ wState = "running"
    /\ wFn \in {"walk", "walkDeep"}
    /\ Top.i <= Len(wHeap[Top.node])
    /\ LET e == wHeap[Top.node][Top.i]
       IN  IF e.t = "r"
           THEN IF Len(wStack) = MaxDepth
                THEN /\ wState' = "overflow"
                     /\ wStack' = <<>>
                     /\ UNCHANGED <<wOut, wVisits>>
                ELSE /\ wStack' = Append(Advance, Frame(e.v))
                     /\ wVisits' = Append(wVisits, e.v)
                     /\ UNCHANGED <<wState, wOut>>
           ELSE /\ wOut' = IF Reports(wFn, e)
                           THEN Append(wOut, <<Top.node, Top.i>>)
                           ELSE wOut
                /\ wStack' = Advance
                /\ UNCHANGED <<wState, wVisits>>
    /\ UNCHANGED <<walkFrame, wSeen, wHit>>

\* forEach is through with the array: the call returns
ForEachDone ==
    /\ wState = "running"
    /\ wFn \in {"walk", "walkDeep"}
    /\ Top.i > Len(wHeap[Top.node])
    /\ wStack' = SubSeq(wStack, 1, Len(wStack) - 1)
    /\ wState' = IF Len(wStack) = 1 THEN "returned" ELSE "running"
    /\ UNCHANGED <<walkFrame, wSeen, wOut, wVisits, wHit>>

\* Array.isArray(x) && Array.isArray(x[0]) && typeof x[0][0] === 'string'
HeapTextShape(heap, x) ==
    /\ x.t = "r"
    /\ heap[x.v] # <<>>
    /\ heap[x.v][1].t = "r"
    /\ heap[heap[x.v][1].v] # <<>>
    /\ heap[heap[x.v][1].v][1].t = "s"

HeapText(heap, x) == Str(Trim(heap[heap[x.v][1].v][1].v))

\* Pattern A and Pattern B of recurse on the array r: the text, or null
PatternHit(heap, r) ==
    LET node == heap[r]
        n == Len(node)
        hitsA == {i \in 1..(n - 1) :
                     /\ node[i].t = "s"
                     /\ IsLangTag(node[i].v)
                     /\ HeapTextShape(heap, node[i + 1])}
    IN  IF hitsA # {}
        THEN HeapText(heap, node[(CHOOSE i \in hitsA : \A j \in hitsA : i <= j) + 1])
        ELSE IF /\ n >= 2
                /\ node[n - 1].t = "r"
                /\ Len(heap[node[n - 1].v]) = 1
                /\ heap[node[n - 1].v][1].t = "s"
                /\ IsLangTag(heap[node[n - 1].v][1].v)
                /\ HeapTextShape(heap, node[n])
             THEN HeapText(heap, node[n])
             ELSE Null

\* recurse(block) is called from extractReviewText: seen is empty, the
\* block is added to it, and a pattern found on it is returned at once
RecurseCall ==
    /\ wState = "idle"
    /\ wFn = "recurse"
    /\ wSeen' = {1}
    /\ wVisits' = <<1>>
    /\ wHit' = PatternHit(wHeap, 1)
    /\ IF PatternHit(wHeap, 1) # Null
       THEN wState' = "returned" /\ wStack' = <<>>
       ELSE wState' = "running" /\ wStack' = <<Frame(1)>>
    /\ UNCHANGED <<walkFrame, wOut>>

\* the for-of loop hands the next child to recurse: a child that is no
\* array, or an array in seen, gives null; another array is added to seen
\* and searched, and a hit is returned through every caller
RecurseChild ==
    /\ wState = "running"
    /\ wFn = "recurse"
    /\ Top.i <= Len(wHeap[Top.node])
    /\ LET e == wHeap[Top.node][Top.i]
       IN  IF e.t # "r" \/ e.v \in wSeen
           THEN /\ wStack' = Advance
                /\ UNCHANGED <<wState, wSeen, wVisits, wHit>>
           ELSE IF Len(wStack) = MaxDepth
                THEN /\ wState' = "overflow"
                     /\ wStack' = <<>>
                     /\ UNCHANGED <<wSeen, wVisits, wHit>>
                ELSE /\ wSeen' = wSeen \cup {e.v}
                     /\ wVisits' = Append(wVisits, e.v)
                     /\ wHit' = PatternHit(wHeap, e.v)
                     /\ IF PatternHit(wHeap, e.v) # Null
                        THEN wState' = "returned" /\ wStack' = <<>>
                        ELSE /\ wStack' = Append(Advance, Frame(e.v))
                             /\ UNCHANGED wState
    /\ UNCHANGED <<walkFrame, wOut>>

\* the for-of loop is through with the array: the call returns null
RecurseDone ==
    /\ wState = "running"
    /\ wFn = "recurse"
    /\ Top.i > Len(wHeap[Top.node])
    /\ wStack' = SubSeq(wStack, 1, Len(wStack) - 1)
    /\ wState' = IF Len(wStack) = 1 THEN "returned" ELSE "running"
    /\ UNCHANGED <<walkFrame, wSeen, wOut, wVisits, wHit>>

NextWalk ==
    \/ WalkCall
    \/ ForEachStep
    \/ ForEachDone
    \/ RecurseCall
    \/ RecurseChild
    \/ RecurseDone

SpecWalk == InitWalk /\ [][NextWalk]_vars

(***************************************************************************)
(* The claims.                                                             *)
(***************************************************************************)
Count(tbl, id) == Cardinality({i \in 1..Len(tbl) : tbl[i].review_id = id})
HasDuplicateId(rows) ==
    \E i, j \in 1..Len(rows) : i < j /\ rows[i].review_id = rows[j].review_id
Present(tok) == tok.t \notin {"null", "undef"}

\* C1: while the pool runs, every step keeps each stored row as it is, and a
\* row of the new table whose review_id was stored before the step is that
\* stored row: no candidate changes or replaces a stored row, in either mode.
C1_NoOverwrite ==
    [][mainpc = "pool" =>
         /\ \A i \in 1..Len(table) : i <= Len(table') /\ table'[i] = table[i]
         /\ \A j \in 1..Len(table') :
               HasId(table, table'[j].review_id) =>
                  \E i \in 1..Len(table) : table[i] = table'[j]]_vars

\* a gateway call has finished that held a candidate whose review_id is
\* stored with other field values
C1_Witness ==
    \E w \in Workers :
        /\ pc[w] = "close"
        /\ obs[w].gw \in {"inserted", "skipped", "unique_violation"}
        /\ \E i \in 1..Len(all[w]), j \in 1..Len(table) :
              all[w][i].review_id = table[j].review_id /\ all[w][i] # table[j]

\* C2: when the INSERT of insertIfNew is executed (the connection not
\* failing), the call ends without error and every review_id of the batch,
\* so also one that the batch holds twice and that was not stored, has
\* exactly one row.
C2_DuplicateInBatch ==
    [][\A w \in Workers :
          (variant = 1 /\ pc[w] = "insert" /\ pc'[w] = "close"
             /\ obs'[w].gw # "storage_failure")
          => /\ obs'[w].gw = "inserted"
             /\ ~obs'[w].failed
             /\ \A i \in 1..Len(all[w]) : Count(table', all[w][i].review_id) = 1]_vars

\* insertIfNew has stored a row for a batch that holds a review_id twice
C2_Witness ==
    \E w \in Workers :
        /\ variant = 1 /\ pc[w] = "close" /\ obs[w].gw = "inserted"
        /\ obs[w].written >= 1
        /\ HasDuplicateId(all[w])
        /\ \A i \in 1..Len(all[w]) : Count(table, all[w][i].review_id) = 1

\* C3: once insertIfNew has returned for a batch, a second call with the
\* same batch finds every id stored: its difference is empty, so it sends no
\* INSERT, inserts zero rows and leaves the table as it is.
C3_SecondCallInsertsNothing ==
    \A w \in Workers :
        (variant = 1 /\ pc[w] = "close" /\ obs[w].gw \in {"inserted", "skipped", "empty"})
        => \/ all[w] = <<>>
           \/ ~ShouldInsert(Fresh(all[w], SelectExisting(table, all[w])))

\* insertIfNew has returned after storing rows
C3_Witness ==
    \E w \in Workers :
        /\ variant = 1 /\ pc[w] = "close" /\ obs[w].gw = "inserted"
        /\ obs[w].written >= 1

\* C4: a call of insertIfNew whose batch is empty, or whose existence query
\* returned every submitted review_id, has sent no INSERT.
C4_NoInsertWhenNothingNew ==
    \A w \in Workers :
        (/\ variant = 1
         /\ \/ all[w] = <<>>
            \/ /\ obs[w].selects > 0 /\ pc[w] # "select"
               /\ {all[w][i].review_id : i \in 1..Len(all[w])} \subseteq existing[w])
        => obs[w].inserts = 0

\* the existence query returned every id of a non-empty batch, and the call
\* returned
C4_Witness ==
    \E w \in Workers :
        /\ variant = 1 /\ pc[w] = "close" /\ obs[w].gw = "skipped"
        /\ all[w] # <<>>
        /\ {all[w][i].review_id : i \in 1..Len(all[w])} \subseteq existing[w]

\* C5: no exception of a per-target run makes the process exit.
C5_TargetErrorNeverExits == exitCause # "target"

\* C6: the rows passed to scrapePlace are, in call order, the input rows
\* already dequeued: each once, in input order, none undefined; the queue
\* holds the rest; when the pool has drained the queue every row was passed.
C6_EachTargetOnce ==
    (mainpc \in {"pool", "teardown", "finished"} \/ exitCause \in {"target", "teardown"}) =>
        /\ Len(calls) <= Len(sources)
        /\ calls = SubSeq(sources, 1, Len(calls))
        /\ q = SubSeq(sources, Len(calls) + 1, Len(sources))
        /\ \A i \in 1..Len(calls) : calls[i] # NoRow
        /\ \A w \in Workers : pc[w] \notin {"idle", "done"} => src[w] \in Targets
        /\ Cardinality({w \in Workers : pc[w] \notin {"idle", "done"}}) <= Len(calls)
        /\ mainpc \in {"teardown", "finished"} => calls = sources

\* the pool has drained a queue longer than the pool: a worker looped
C6_Witness ==
    mainpc = "finished" /\ Len(sources) > CONCURRENCY /\ calls = sources

IssuesRequest(w) == pc'[w] = "get" /\ pc[w] # "get"

\* C7: a follow-up request is issued only from the loop test, with the token
\* of the page parsed last present and no status other than 200 seen; a
\* response with another status adds nothing to the collected rows and is
\* not read; after it, and after the loop has ended, no request follows.
C7_PaginationStops ==
    [][\A w \in Workers :
          /\ IssuesRequest(w) =>
                /\ pc[w] \in {"firstText", "sleep"}
                /\ Present(token'[w])
                /\ obs[w].lastStatus \in {0, 200}
          /\ (pc[w] = "get" /\ obs'[w].lastStatus \notin {0, 200}) =>
                /\ all'[w] = all[w]
                /\ pc'[w] \notin {"get", "resText", "sleep"}
          /\ (obs[w].lastStatus \notin {0, 200} \/ pc[w] \in {"select", "insert", "close"}) =>
                pc'[w] \notin {"get", "resText", "sleep"}]_vars

\* a follow-up response with a status other than 200 ended the loop of a
\* target that had collected rows
C7_Witness ==
    \E w \in Workers :
        /\ obs[w].lastStatus \notin {0, 200}
        /\ pc[w] \in {"select", "insert"}
        /\ all[w] # <<>>

MarkerAbsent(url) ==
    ~Includes(url, IF Ep(url) = "entities" THEN EntitiesTag ELSE UgcTag)

\* C8: a target whose first response's URL holds no token marker, so that
\* every rewrite returns that URL unchanged, requests the unchanged URL at
\* most once.
C8_UnchangedUrlIsTerminal ==
    \A w \in Workers :
        (pc[w] \notin {"idle", "done"} /\ baseUrl[w] # <<>> /\ MarkerAbsent(baseUrl[w]))
        => obs[w].sameUrl <= 1

\* the segments of a URL between its "!" separators
RECURSIVE SplitBang(_)
SplitBang(s) ==
    LET i == IndexOf(s, <<"!">>)
    IN  IF i = 0 THEN <<s>>
        ELSE <<SubSeq(s, 1, i - 1)>> \o SplitBang(SubSeq(s, i + 1, Len(s)))

RECURSIVE JoinBang(_)
JoinBang(segs) ==
    IF Len(segs) = 1 THEN segs[1] ELSE segs[1] \o <<"!">> \o JoinBang(Tail(segs))

TagName(ep) == IF ep = "entities" THEN <<"3", "s">> ELSE <<"2", "s">>

\* the URL with its token-bearing segment (the first segment after a "!"
\* that begins with the flavor's tag) replaced by the tag and the escaped t
SegmentReplaced(url, ep, t) ==
    LET segs == SplitBang(url)
        hits == {i \in 2..Len(segs) : StartsWith(segs[i], TagName(ep))}
    IN  IF hits = {} THEN url
        ELSE LET i == CHOOSE i \in hits : \A j \in hits : i <= j
             IN  JoinBang([segs EXCEPT ![i] = TagName(ep) \o encodeURIComponent(t)])

\* C9: a URL rewritten with t1 and then with t2 is the original URL with its
\* token-bearing segment replaced by the tag and the escaped t2.
C9_RewriteTwice ==
    Len(cOut) = 2 => cOut[2].url = SegmentReplaced(cUrl, cOut[2].ep, cOut[2].t)

\* one rewrite does what the claim says of it, and so do two when the first
\* token holds no "!"
CodecSanity ==
    /\ Len(cOut) >= 1 => cOut[1].url = SegmentReplaced(cUrl, cOut[1].ep, cOut[1].t)
    /\ (Len(cOut) = 2 /\ ~Includes(cOut[1].t, <<"!">>)) =>
          cOut[2].url = SegmentReplaced(cUrl, cOut[2].ep, cOut[2].t)

\* C10: a run of scrapePlace that failed before the gateway call has sent no
\* statement to storage and has stored no row.
C10_FailedRunWritesNothing ==
    \A w \in Workers :
        (obs[w].failed /\ obs[w].gw = "none")
        => obs[w].written = 0 /\ obs[w].inserts = 0 /\ obs[w].selects = 0

\* a run failed before the gateway call with rows already collected
C10_Witness ==
    \E w \in Workers :
        obs[w].failed /\ obs[w].gw = "none" /\ obs[w].collected >= 1

(***************************************************************************)
(* Claims about the Batch Parser (under SpecParse).                        *)
(***************************************************************************)
Called == pOut # <<>>
Records == pOut[1].reviews
InData == pIn.raw.json
\* the blocks of the body: the array at top-level offset 2
InBlocks ==
    IF InData.t = "a" /\ Len(InData.v) >= 3 /\ InData.v[3].t = "a"
    THEN InData.v[3].v ELSE <<>>

\* C11: every record has a review_id that is a non-empty string, and there
\* are at most as many records as blocks.
C11_IdentifierNonEmptyString ==
    Called =>
        /\ \A i \in 1..Len(Records) :
              Records[i].review_id.t = "s" /\ Records[i].review_id.v # <<>>
        /\ Len(Records) <= Len(InBlocks)

\* C12: the rating of every record is absent or an integer in 1..5.
C12_RatingInRange ==
    Called =>
        \A i \in 1..Len(Records) :
            \/ Records[i].rating = Null
            \/ /\ Records[i].rating.t = "n"
               /\ Records[i].rating.v >= 1 /\ Records[i].rating.v <= 5

\* the string leaves of a value, depth first
RECURSIVE StringLeaves(_)
StringLeaves(n) ==
    IF n.t = "s" THEN <<n.v>>
    ELSE IF n.t = "a"
         THEN IF n.v = <<>> THEN <<>>
              ELSE StringLeaves(n.v[1]) \o StringLeaves([t |-> "a", v |-> Tail(n.v)])
         ELSE <<>>

IsHttp(x) == Len(x) >= 4 /\ SubSeq(x, 1, 4) = <<"h", "t", "t", "p">>
FirstPos(seq, x) == CHOOSE i \in 1..Len(seq) : seq[i] = x /\ \A j \in 1..(i - 1) : seq[j] # x
Occurs(seq, x) == \E i \in 1..Len(seq) : seq[i] = x

\* imgs is the first 8 distinct http strings of leaves, in the order of
\* their first occurrence
ImagesOf(imgs, leaves) ==
    /\ Len(imgs) <= 8
    /\ \A i \in 1..Len(imgs) : IsHttp(imgs[i]) /\ Occurs(leaves, imgs[i])
    /\ \A i, j \in 1..Len(imgs) : i < j =>
          /\ imgs[i] # imgs[j]
          /\ FirstPos(leaves, imgs[i]) < FirstPos(leaves, imgs[j])
    /\ \A k \in 1..Len(leaves) :
          IsHttp(leaves[k]) =>
             \/ Occurs(imgs, leaves[k])
             \/ Len(imgs) = 8 /\ FirstPos(leaves, imgs[8]) < k

\* the records come from blocks in block order
Origins ==
    {f \in [1..Len(Records) -> 1..Len(InBlocks)] :
        \A i, j \in 1..Len(Records) : i < j => f[i] < f[j]}

Shaped ==
    /\ pIn.raw.json # Garbage
    /\ \A i \in 1..Len(pIn.raw.lead) : pIn.raw.lead[i] = "xssi" => i = 1
    /\ InData.t = "a" /\ Len(InData.v) >= 3 /\ InData.v[3].t = "a"

\* C14: a body that is not parseable or has not the expected top-level
\* shape gives zero records and an absent token.
C14_MalformedGivesNothing ==
    (Called /\ ~Shaped) => Records = <<>> /\ ~Present(pOut[1].token)

\* the token the claim describes
ClaimedToken ==
    IF pIn.raw.json = Garbage \/ InData.t # "a" THEN Null
    ELSE IF pIn.ep = "ugc"
    THEN (IF Len(InData.v) >= 2 /\ InData.v[2].t = "s" THEN InData.v[2] ELSE Null)
    ELSE LET last == IF InData.v = <<>> THEN Null ELSE InData.v[Len(InData.v)]
         IN  IF last.t = "a" /\ last.v # <<>> /\ last.v[1].t = "s" THEN last.v[1] ELSE Null

\* C15: the token is absent or a string: the string at offset 1 (ugc), the
\* string at element 0 of the last element when that is an array
\* (entities), absent in every other case.
C15_TokenAbsentOrString ==
    (Called /\ Shaped) =>
        /\ pOut[1].token.t \in {"s", "null", "undef"}
        /\ Present(pOut[1].token) => pOut[1].token = ClaimedToken
        /\ Present(ClaimedToken) => pOut[1].token = ClaimedToken

LacksPrefix(raw) == raw.lead = <<>> \/ raw.lead[1] # "xssi"
Prefixed(raw) == [lead |-> <<"xssi">> \o raw.lead, json |-> raw.json]

\* C16: a body that does not begin with the prefix parses as the same body
\* with the prefix put before it; a prefix that is not at the very start,
\* or a second prefix, is left in the text, which then is no JSON.
C16_PrefixStrippedOnce ==
    Called =>
        /\ LacksPrefix(pIn.raw) =>
              pOut[1] = parseBatch(pIn.v, Prefixed(pIn.raw), pIn.ep)
        /\ (\E i \in 2..Len(pIn.raw.lead) : pIn.raw.lead[i] = "xssi") =>
              Records = <<>> /\ pOut[1].token = Null

\* a body without the prefix gave records and a token
C16_Witness ==
    /\ Called /\ LacksPrefix(pIn.raw)
    /\ Records # <<>> /\ Present(pOut[1].token)
    /\ pOut[1] = parseBatch(pIn.v, Prefixed(pIn.raw), pIn.ep)

\* C17: ensureTable keeps every row that was stored before the run.
C17_EnsureTableKeepsRows ==
    [][(mainpc = "ensureTable" \/ mainpc = "createTable") =>
         (\A i \in 1..Len(table) : i <= Len(table') /\ table'[i] = table[i])]_vars

\* the page-level token of the body: the value at top-level offset 1
PageToken ==
    IF InData.t = "a" /\ Len(InData.v) >= 2 THEN InData.v[2] ELSE [t |-> "undef", v |-> 0]

\* C18: a block whose [0][0] is the page-level token and that holds no reply
\* link gives no record: no record of the second variant has the page
\* token as its review_id.
C18_EchoedTokenGivesNoRecord ==
    (Called /\ pIn.v = 2 /\ PageToken.t = "s") =>
        \A i \in 1..Len(Records) : Records[i].review_id # PageToken

\* the value at the fixed author path b[0][1][4][5][0], undefined when the
\* path is missing
RECURSIVE At(_, _)
At(n, path) ==
    IF path = <<>> THEN n
    ELSE IF n.t = "a" /\ Head(path) < Len(n.v) THEN At(n.v[Head(path) + 1], Tail(path))
    ELSE [t |-> "undef", v |-> 0]

\* the first string leaf of the block's first sub-tree that is no URL, the
\* empty string when there is none
FallbackAuthor(b) ==
    LET leaves == StringLeaves(At(b, <<0>>))
        hits == {i \in 1..Len(leaves) : ~IsHttp(leaves[i])}
    IN  IF hits = {} THEN <<>>
        ELSE leaves[CHOOSE i \in hits : \A j \in hits : i <= j]

\* C20: the record of a block without a string at the fixed author path has
\* as author the first string leaf of the block's first sub-tree that does
\* not look like a URL.
C20_AuthorFallback ==
    (Called /\ Len(InBlocks) = 1 /\ Len(Records) = 1
       /\ At(InBlocks[1], <<0, 1, 4, 5, 0>>).t # "s")
    => Records[1].author = FallbackAuthor(InBlocks[1])

(***************************************************************************)
(* Claims about the Tree Walker (under SpecWalk).                          *)
(***************************************************************************)
NoRepeat(seq) == \A i, j \in 1..Len(seq) : seq[i] = seq[j] => i = j

Requests(w) == pc[w] # "get" /\ pc'[w] = "get"
Outstanding == {w \in Workers : pc[w] = "get"}

\* a target is started only by the pool's start, CONCURRENCY at most, or
\* by a worker whose scrapePlace has just returned, one at a time
StartsBounded ==
    (Len(calls') > Len(calls)) =>
        IF mainpc = "launch"
        THEN Len(calls') - Len(calls) <= CONCURRENCY
        ELSE /\ Len(calls') = Len(calls) + 1
             /\ \E w \in Workers : pc[w] = "close" /\ pc'[w] = "newPage"

\* C21 as stated: at most CONCURRENCY targets are in progress, a target has
\* at most one page request outstanding, and every follow-up request is
\* issued only after the page before it was parsed and the inter-page
\* delay has elapsed.
C21_RequestOnlyAfterDelay ==
    [][/\ StartsBounded
       /\ (\A w \in Workers : Requests(w) => (pc[w] = "sleep"))
       /\ Cardinality(Outstanding') <= CONCURRENCY]_vars

\* C21 amended: at most CONCURRENCY targets are in progress, a target has
\* at most one page request outstanding, and a follow-up request is issued
\* only after the page before it was parsed: the request of page 2 right
\* after the first page was parsed, every later one after the inter-page
\* delay that follows the parse.
C21_PagesSequentialPoolBounded ==
    [][/\ StartsBounded
       /\ (\A w \in Workers :
              Requests(w) =>
                 (\/ (pc[w] = "firstText" /\ pageNo'[w] = 2)
                  \/ (pc[w] = "sleep" /\ pageNo'[w] > 2)))
       /\ Cardinality(Outstanding') <= CONCURRENCY]_vars

\* both workers have a follow-up request outstanding, one of them issued
\* after a delay, while a target waits in the queue
C21_Witness ==
    \E w1, w2 \in Workers :
        /\ w1 # w2
        /\ pc[w1] = "get" /\ pageNo[w1] = 3
        /\ pc[w2] = "get"
        /\ Len(q) > 0

\* the rows with the review_id id, in storage order
RowsOf(tbl, id) == SelectSeq(tbl, LAMBDA r : r.review_id = id)

\* worker w's INSERT of insertIfNew is executed in this step
InsertsIfNew(w) ==
    /\ variant = 1 /\ pc[w] = "insert" /\ pc'[w] = "close"
    /\ obs'[w].gw # "storage_failure"

\* C22: when the INSERT of an insertIfNew call is executed, whatever other
\* calls did between its existence query and now, the call does not fail,
\* a review_id of its difference that another call has stored meanwhile
\* keeps its one row, the one stored first, and a review_id of its
\* difference that is not stored gets exactly one row, the call's own.
C22_ConcurrentInsertIfNew ==
    [][\A w \in Workers :
          InsertsIfNew(w) =>
             /\ ~obs'[w].failed
             /\ \A i \in 1..Len(all[w]) :
                   LET id == all[w][i].review_id
                   IN  (id \notin existing[w]) =>
                          IF HasId(table, id)
                          THEN RowsOf(table', id) = RowsOf(table, id)
                               /\ Len(RowsOf(table, id)) = 1
                          ELSE \E j \in 1..i :
                                  RowsOf(table', id) = <<all[w][j]>>]_vars

\* an insertIfNew call has returned whose INSERT proposed a review_id that
\* another worker's call stored after this call's existence query, and
\* that stored a row of its own
C22_Witness ==
    \E w \in Workers :
        /\ variant = 1 /\ pc[w] = "close" /\ obs[w].gw = "inserted"
        /\ obs[w].written >= 1
        /\ \E i \in 1..Len(all[w]) :
              /\ all[w][i].review_id \notin existing[w]
              /\ RowsOf(table, all[w][i].review_id) # <<>>
              /\ RowsOf(table, all[w][i].review_id)[1].company # all[w][i].company
        /\ \E i \in 1..Len(all[w]) : RowsOf(table, all[w][i].review_id) = <<all[w][i]>>

\* the body the site of the place answers the request of page k with,
\* when it answers with status 200
ServedPage(gmaps_url, k) ==
    CASE gmaps_url = "uA" -> (IF k = 1 THEN PageA1 ELSE IF k = 2 THEN PageA2 ELSE PageA3)
      [] gmaps_url = "uB" -> PageB
      [] OTHER -> PageC

\* the record r of the parser with the fields of the place s
WithSource(r, s) ==
    [review_id |-> r.review_id, author |-> r.author, rating |-> r.rating,
     review_text |-> r.review_text, review_date |-> r.review_date,
     images |-> r.images, company |-> s.company, location |-> s.location,
     business_url |-> s.gmaps_url]

\* the records of the pages 1..n of worker w's place: page after page and,
\* within a page, block after block
RECURSIVE CollectedUpTo(_, _)
CollectedUpTo(w, n) ==
    IF n = 0 THEN <<>>
    ELSE LET recs == parseBatch(variant, ServedPage(src[w].gmaps_url, n),
                                Ep(baseUrl[w])).reviews
         IN  CollectedUpTo(w, n - 1) \o [i \in 1..Len(recs) |-> WithSource(recs[i], src[w])]

\* the status of worker w's last follow-up response ended the loop
BrokeOnStatus(w) == obs[w].lastStatus # 0 /\ obs[w].lastStatus # 200

\* C23: when the response of a follow-up request has a status other than
\* 200, the run does not fail and keeps what it collected, which is the
\* records of all earlier pages in page order and block order; when there
\* are any, they are handed to the gateway in one call, and stay as they
\* are while the call runs.
C23_NonOkKeepsEarlierPages ==
    [][\A w \in Workers :
          /\ (pc[w] = "get" /\ pc'[w] # "get" /\ BrokeOnStatus(w)' /\ ~obs'[w].failed)
             => /\ all'[w] = all[w]
                /\ all[w] = CollectedUpTo(w, pageNo[w] - 1)
                /\ IF all[w] = <<>> THEN pc'[w] = "close"
                   ELSE IF variant = 1
                        THEN pc'[w] = "select" /\ obs'[w].selects = 1 /\ obs'[w].inserts = 0
                        ELSE pc'[w] = "insert" /\ obs'[w].inserts = 1
          /\ ((pc[w] = "select" \/ pc[w] = "insert") /\ BrokeOnStatus(w))
             => /\ all'[w] = all[w]
                /\ obs'[w].selects <= 1
                /\ obs'[w].inserts <= 1]_vars

\* the third request of site uA was answered with status 500 and the three
\* records of its first two pages are with the gateway
C23_Witness ==
    \E w \in Workers :
        /\ (pc[w] = "select" \/ pc[w] = "insert")
        /\ obs[w].lastStatus = 500
        /\ pageNo[w] = 3
        /\ Len(all[w]) = 3
        /\ all[w][1].review_id = Str(R1)
        /\ all[w][2].review_id = Str(R2)
        /\ all[w][3].review_id = Str(R1)

\* worker w's INSERT of insert is executed in this step
InsertsPlain(w) ==
    /\ variant = 2 /\ pc[w] = "insert" /\ pc'[w] = "close"
    /\ obs'[w].gw # "storage_failure"

StoredIdIn(rows) == \E i \in 1..Len(rows) : HasId(table, rows[i].review_id)

====
